---- MODULE Spec2Model ----
(***************************************************************************)
(* mssh (src/main.go): a multi-host SSH launcher.  One run of main is the  *)
(* state machine: load the layered host configuration, resolve the target  *)
(* names from the filters, apply the dry-run / usage / confirmation guards *)
(* and launch one command per target.                                      *)
(*                                                                         *)
(* A Go string is a sequence of one-character strings, so that prefix      *)
(* tests, splitting, comparison and pattern matching are computed.         *)
(***************************************************************************)
EXTENDS Integers, Sequences, FiniteSets, TLC

VARIABLES fs, opts, pc, c, hosts, asked, answer, built, launched, pos

vars == <<fs, opts, pc, c, hosts, asked, answer, built, launched, pos>>

(***************************************************************************)
(* Bounds of the model.                                                    *)
(***************************************************************************)
\* frames of loadConf the goroutine stack holds before the runtime aborts
MaxStack == 4
\* filter patterns on the command line
MaxFilters == 2
\* characters of a GatewayCommand
MaxCmdLen == 3

(***************************************************************************)
(* Strings.                                                                *)
(***************************************************************************)
\* the byte value of a character, which orders strings in sort.Strings
Ord(ch) ==
    CASE ch = "\t" -> 9
      [] ch = " "  -> 32
      [] ch = "$"  -> 36
      [] ch = "("  -> 40
      [] ch = "*"  -> 42
      [] ch = "."  -> 46
      [] ch = "/"  -> 47
      [] ch = "1"  -> 49
      [] ch = "2"  -> 50
      [] ch = "3"  -> 51
      [] ch = "^"  -> 94
      [] ch = "_"  -> 95
      [] ch = "a"  -> 97
      [] ch = "b"  -> 98
      [] ch = "c"  -> 99
      [] ch = "d"  -> 100
      [] ch = "e"  -> 101
      [] ch = "h"  -> 104
      [] ch = "m"  -> 109
      [] ch = "w"  -> 119
      [] ch = "~"  -> 126

\* s[from..], the Go slice s[from-1:]
Drop(s, n) == SubSeq(s, n + 1, Len(s))

\* strings.HasPrefix(s, p)
HasPrefix(s, p) == Len(s) >= Len(p) /\ SubSeq(s, 1, Len(p)) = p

RECURSIVE StrLess(_, _)
\* s < t on Go strings: bytewise lexicographic
StrLess(s, t) ==
    IF t = <<>> THEN FALSE
    ELSE IF s = <<>> THEN TRUE
    ELSE IF Ord(s[1]) < Ord(t[1]) THEN TRUE
    ELSE IF Ord(s[1]) > Ord(t[1]) THEN FALSE
    ELSE StrLess(Tail(s), Tail(t))

RECURSIVE Insert(_, _)
\* x put into the sorted sequence xs, after the elements not greater than it
Insert(x, xs) ==
    IF xs = <<>> THEN <<x>>
    ELSE IF StrLess(x, xs[1]) THEN <<x>> \o xs
    ELSE <<xs[1]>> \o Insert(x, Tail(xs))

RECURSIVE SortStrings(_)
\* sort.Strings(xs): xs in increasing order, every element kept
SortStrings(xs) ==
    IF xs = <<>> THEN <<>> ELSE Insert(xs[1], SortStrings(Tail(xs)))

RECURSIVE Split(_, _)
\* strings.Split(s, sep) for a one-character sep: the pieces between
\* consecutive separators, empty pieces included; Split("", sep) is [""]
Split(s, sep) ==
    LET idx == {i \in 1..Len(s) : s[i] = sep}
    IN  IF idx = {} THEN <<s>>
        ELSE LET i == CHOOSE j \in idx : \A k \in idx : j <= k
             IN  <<SubSeq(s, 1, i - 1)>> \o Split(Drop(s, i), sep)

RECURSIVE Join(_, _)
\* strings.Join(xs, sep)
Join(xs, sep) ==
    IF xs = <<>> THEN <<>>
    ELSE IF Len(xs) = 1 THEN xs[1]
    ELSE xs[1] \o sep \o Join(Tail(xs), sep)

(***************************************************************************)
(* Regular expressions: the fragment of Go's regexp syntax over literal    *)
(* characters, ".", a postfix "*", a leading "^", a trailing "$" and "(".  *)
(***************************************************************************)
\* regexp.MustCompile(f) returns (does not panic): a "(" is never closed in
\* this alphabet, and "*" needs an operand that is not itself a "*"
Compiles(f) ==
    /\ \A i \in 1..Len(f) : f[i] /= "("
    /\ \A i \in 1..Len(f) :
          f[i] = "*" => /\ i > 1
                        /\ f[i - 1] /= "*"

RECURSIVE MatchHere(_, _)
\* the pattern re matches a prefix of text
MatchHere(re, text) ==
    IF re = <<>> THEN TRUE
    ELSE IF Len(re) >= 2 /\ re[2] = "*"
         THEN \E n \in 0..Len(text) :
                 /\ \A i \in 1..n : re[1] = "." \/ re[1] = text[i]
                 /\ MatchHere(Drop(re, 2), Drop(text, n))
    ELSE IF re = <<"$">> THEN text = <<>>
    ELSE /\ text /= <<>>
         /\ (re[1] = "." \/ re[1] = text[1])
         /\ MatchHere(Tail(re), Tail(text))

\* r.MatchString(k) for r = regexp.MustCompile(f): f matches somewhere in k
MatchString(f, k) ==
    IF f /= <<>> /\ f[1] = "^" THEN MatchHere(Tail(f), k)
    ELSE \E n \in 0..Len(k) : MatchHere(f, Drop(k, n))

(***************************************************************************)
(* ConfigStore: conf, hostConf, expandHomeDir, loadConf, merge.            *)
(***************************************************************************)
\* the zero hostConf, which c.Hosts[name] yields for a name that is no key
ZeroHost == [Via |-> <<>>, Hostname |-> <<>>, GatewayCommand |-> <<>>]

\* usr.HomeDir of the user running the program
HomeDir == <<"/", "h">>

\* expandHomeDir(path), for a path of at least two bytes (path[:2] panics
\* on a shorter one): a leading "~/" becomes the home directory and "/"
expandHomeDir(path) ==
    LET dir == HomeDir \o <<"/">>
    IN  IF SubSeq(path, 1, 2) = <<"~", "/">> THEN dir \o Drop(path, 2) ELSE path

\* merge with the test of line 59 inverted: the incoming record replaces
\* the one already present
MergeOverrides(cHosts, otherHosts) ==
    [k \in DOMAIN cHosts \cup DOMAIN otherHosts |->
        IF k \in DOMAIN otherHosts THEN otherHosts[k] ELSE cHosts[k]]

\* c.merge(other): a host of other is added only under a name c lacks
merge(cHosts, otherHosts) ==
    [k \in DOMAIN cHosts \cup DOMAIN otherHosts |->
        IF k \in DOMAIN cHosts THEN cHosts[k] ELSE otherHosts[k]]

RECURSIVE loadConf(_, _, _)
RECURSIVE loadIncludes(_, _, _, _, _)
\* loadConf(path) on the files files, with room for stack more frames.
\* st is "ok" (v, nil), "err" (an error is returned), "slice panic"
\* (path[:2] out of range) or "overflow" (the recursion exhausts the goroutine stack and
\* the runtime kills the process).  A document that does not decode
\* (valid = FALSE) keeps what was decoded, has its includes loaded, and is
\* returned with the decoding error.
loadConf(files, path, stack) ==
    IF stack = 0 THEN [st |-> "overflow"]
    ELSE IF Len(path) < 2 THEN [st |-> "slice panic"]
    ELSE LET p == expandHomeDir(path)
         IN  IF p \notin DOMAIN files THEN [st |-> "err"]
             ELSE LET v == files[p]
                      r == loadIncludes(files, v.Includes, 1, v.Hosts, stack - 1)
                  IN  IF r.st /= "ok" THEN r
                      ELSE IF v.valid THEN r
                      ELSE [st |-> "err"]

\* the loop of loadConf over v.Includes from index n on, v.Hosts being acc
loadIncludes(files, includes, n, acc, stack) ==
    IF n > Len(includes) THEN [st |-> "ok", Hosts |-> acc]
    ELSE LET inc == loadConf(files, includes[n], stack)
         IN  IF inc.st /= "ok" THEN [st |-> inc.st]
             ELSE loadIncludes(files, includes, n + 1, merge(acc, inc.Hosts), stack)

(***************************************************************************)
(* TargetResolver: filter, getTargets.                                     *)
(***************************************************************************)
\* filter(elems, f, re), when regexp.MustCompile(f) returns
filter(elems, f, re) ==
    LET Keep(k) == /\ ~HasPrefix(k, <<"_">>)
                   /\ \/ ~re /\ f = k
                      \/ re /\ MatchString(f, k)
    IN  SelectSeq(elems, Keep)

RECURSIVE getTargetsFrom(_, _, _, _, _, _)
\* the loop of getTargets over filters from index n on
getTargetsFrom(all, targets, filters, n, op, re) ==
    IF n > Len(filters) THEN IF op = "AND" THEN all ELSE targets
    ELSE LET matched == filter(all, filters[n], re)
         IN  IF op = "AND"
             THEN getTargetsFrom(matched, targets, filters, n + 1, op, re)
             ELSE getTargetsFrom(all, targets \o matched, filters, n + 1, op, re)

\* getTargets(hosts, filters, op, re): st is "regexp panic" when filter is called
\* with a pattern regexp.MustCompile rejects
getTargets(cands, filters, op, re) ==
    IF op \notin {"AND", "OR"} THEN [st |-> "ok", targets |-> <<>>]
    ELSE IF \E n \in 1..Len(filters) : ~Compiles(filters[n])
         THEN [st |-> "regexp panic"]
         ELSE [st |-> "ok",
               targets |-> getTargetsFrom(cands, <<>>, filters, 1, op, re)]

(***************************************************************************)
(* CommandBuilder: getSSHCmdline.                                          *)
(***************************************************************************)
SSH == <<"s", "s", "h">>
DashT == <<"-", "t">>

\* getSSHCmdline(name, c)
getSSHCmdline(name, cHosts) ==
    LET h    == IF name \in DOMAIN cHosts THEN cHosts[name] ELSE ZeroHost
        addr == IF h.Hostname /= <<>> THEN h.Hostname ELSE name
        ssh  == IF h.GatewayCommand /= <<>>
                THEN Split(h.GatewayCommand, " ")
                ELSE <<SSH, DashT>>
    IN  IF h.Via = <<>>
        THEN ssh \o <<addr>>
        ELSE <<SSH, DashT, h.Via, h.GatewayCommand \o <<" ">> \o addr>>

(***************************************************************************)
(* LaunchOrchestrator: askyn, tmux, ssh.                                   *)
(***************************************************************************)
\* askyn without the switch of lines 134-137: any byte read is a yes
askynAcceptsAll(rd) == ~rd.err

\* askyn(), rd being what os.Stdin.Read(b) gives: an error, or one byte
askyn(rd) == IF rd.err THEN FALSE ELSE rd.b \in {"y", "Y"}

\* the test of line 215 with the bound of line 218
usageErrorOverTwo(o, hs) == ~o.UseTMUX /\ Len(hs) > 2

\* line 215: several hosts cannot be opened without tmux
usageError(o, hs) == ~o.UseTMUX /\ Len(hs) > 1

\* line 218: the confirmation is asked for
needsConfirm(o, hs) == Len(hs) > 2 /\ ~o.Yes

\* what one os.Stdin.Read of a byte can give
StdinReads ==
    {[err |-> FALSE, b |-> ch] : ch \in {"y", "Y", "n", "\n"}}
        \cup {[err |-> TRUE, b |-> ""]}

\* the argv and the ways tmux(cmds) can end: c.Start() fails or not
tmux(cmds) ==
    [argv |-> <<"tmux", "new-window", Join(cmds, <<" ">>)>>,
     ends |-> {"started", "start failed"}]

\* the argv and the ways ssh(cmds) can end: c.Start() fails (c.Wait() then
\* fails too), c.Wait() reports a failed exit, or the command exits cleanly
ssh(cmds) ==
    [argv |-> cmds,
     ends |-> {"exited", "start failed", "wait failed"}]

(***************************************************************************)
(* The inputs of a run: the files on disk and the parsed command line.     *)
(***************************************************************************)
W1 == <<"w", "1">>
W2 == <<"w", "2">>
W3 == <<"w", "3">>
Tpl == <<"_", "t">>

PathA == <<"~", "/", "a">>
PathB == <<"~", "/", "b">>
PathC == <<"~", "/", "c">>
\* a path no file has
PathD == <<"~", "/", "d">>
\* the file of PathB by its full name
AbsB == <<"/", "h", "/", "b">>
\* a path of one byte
PathE == <<"e">>

FileA == <<"/", "h", "/", "a">>
FileB == <<"/", "h", "/", "b">>
FileC == <<"/", "h", "/", "c">>

\* the sequences over S of length at most n
SeqsUpTo(S, n) == UNION {[1..m -> S] : m \in 0..n}

\* a hostConf that tells the file it was declared in
RecIn(ch) == [Via |-> <<>>, Hostname |-> <<ch>>, GatewayCommand |-> <<>>]

Doc(hs, incs, ok) == [Hosts |-> hs, Includes |-> incs, valid |-> ok]

Options(dry, fixed, yes, mux, filters) ==
    [ConfigFile |-> PathA, Dryrun |-> dry, FixedString |-> fixed,
     Yes |-> yes, UseTMUX |-> mux, Filters |-> filters]

\* the filter patterns tried
Patterns ==
    {<<>>, <<"w">>, W1, W2, <<"_">>, <<".", "*">>, <<"^", "w">>,
     <<"1", "$">>, <<"(">>}

\* layered configurations: three files that include one another, in chains,
\* in both orders, in cycles, through a missing file or a one-byte path
LoadInputs ==
    {[fs |-> [f \in {FileA, FileB, FileC} |->
                IF f = FileA THEN Doc([k \in na |-> RecIn("a")], ia, bad /= "a")
                ELSE IF f = FileB THEN Doc([k \in nb |-> RecIn("b")], ib, bad /= "b")
                ELSE Doc([k \in nc |-> RecIn("c")], ic, bad /= "c")],
      opts |-> Options(TRUE, FALSE, FALSE, FALSE, <<>>)] :
        na \in SUBSET {W1, W2}, nb \in SUBSET {W1, W2}, nc \in SUBSET {W1, W2},
        ia \in {<<>>, <<PathB>>, <<PathC>>, <<PathB, PathC>>, <<PathC, PathB>>,
                <<PathB, AbsB>>, <<PathA>>, <<PathD>>, <<PathE>>},
        ib \in {<<>>, <<PathC>>, <<PathA>>, <<PathD>>},
        ic \in {<<>>, <<PathB>>},
        bad \in {"", "a", "b", "c"}}

\* one file, every filter list, both modes
ResolveInputs ==
    {[fs |-> [f \in {FileA} |-> Doc([k \in ns |-> ZeroHost], <<>>, TRUE)],
      opts |-> Options(TRUE, fixed, FALSE, FALSE, filters)] :
        ns \in SUBSET {W1, W2, Tpl},
        fixed \in BOOLEAN,
        filters \in SeqsUpTo(Patterns, MaxFilters)}

\* one host, every record
BuildInputs ==
    {[fs |-> [f \in {FileA} |-> Doc([k \in {W1} |-> h], <<>>, TRUE)],
      opts |-> Options(FALSE, FALSE, FALSE, mux, <<W1>>)] :
        h \in [Via : {<<>>, <<"b">>},
               Hostname : {<<>>, <<"a">>},
               GatewayCommand : SeqsUpTo({"m", " ", "\t"}, MaxCmdLen)],
        mux \in BOOLEAN}

\* zero to four hosts, every combination of the flags
RunInputs ==
    {[fs |-> [f \in {FileA} |-> Doc([k \in ns |-> ZeroHost], <<>>, TRUE)],
      opts |-> Options(dry, fixed, yes, mux, filters)] :
        ns \in {{}, {W1}, {W1, W2}, {W1, W2, W3}, {W1, W2, W3, Tpl}},
        dry \in BOOLEAN, fixed \in BOOLEAN, yes \in BOOLEAN, mux \in BOOLEAN,
        filters \in {<<>>, <<<<"w">>>>, <<W1>>, <<W1, W2>>, <<W1, W2, W3>>}}

Inputs == LoadInputs \cup ResolveInputs \cup BuildInputs \cup RunInputs

(***************************************************************************)
(* main.                                                                   *)
(***************************************************************************)
Init ==
    /\ \E in \in Inputs : fs = in.fs /\ opts = in.opts
    /\ pc = "start"
    /\ c = <<>>
    /\ hosts = <<>>
    /\ asked = FALSE
    /\ answer = <<>>
    /\ built = <<>>
    /\ launched = <<>>
    /\ pos = 1

\* the orders in which ranging over a map with the keys S can yield them
KeyOrders(S) ==
    {o \in [1..Cardinality(S) -> S] : \A a, b \in DOMAIN o : o[a] = o[b] => a = b}

\* lines 199-202: make([]string, len(c.Hosts)) holds len(c.Hosts) empty
\* strings, and the keys are appended to them
candidates(order) == [n \in 1..Len(order) |-> <<>>] \o order

\* lines 188-191: c, err := loadConf(opts.ConfigFile)
LoadConfig ==
    /\ pc = "start"
    /\ LET r == loadConf(fs, opts.ConfigFile, MaxStack)
       IN  /\ pc' = CASE r.st = "ok" -> "loaded"
                      [] r.st = "err" -> "fatal"
                      [] OTHER -> r.st
           /\ c' = IF r.st = "ok" THEN r.Hosts ELSE c
    /\ UNCHANGED <<fs, opts, hosts, asked, answer, built, launched, pos>>

\* lines 193-209: the candidates, getTargets, sort.Strings, the listing
Resolve ==
    /\ pc = "loaded"
    /\ \E order \in KeyOrders(DOMAIN c) :
          LET re == ~opts.FixedString
              op == IF opts.FixedString THEN "OR" ELSE "AND"
              r  == getTargets(candidates(order), opts.Filters, op, re)
          IN  /\ pc' = IF r.st = "ok" THEN "resolved" ELSE r.st
              /\ hosts' = IF r.st = "ok" THEN SortStrings(r.targets) ELSE hosts
    /\ UNCHANGED <<fs, opts, c, asked, answer, built, launched, pos>>

\* lines 211-219: dry run, the usage error, the confirmation prompt
Guard ==
    /\ pc = "resolved"
    /\ pc' = IF opts.Dryrun THEN "done"
             ELSE IF usageError(opts, hosts) THEN "fatal"
             ELSE IF needsConfirm(opts, hosts) THEN "askyn"
             ELSE "loop"
    /\ asked' = (~opts.Dryrun /\ ~usageError(opts, hosts) /\ needsConfirm(opts, hosts))
    /\ UNCHANGED <<fs, opts, c, hosts, answer, built, launched, pos>>

\* lines 220-222: the answer is read; anything but y or Y is fatal
Confirm ==
    /\ pc = "askyn"
    /\ \E rd \in StdinReads :
          /\ answer' = <<rd>>
          /\ pc' = IF askyn(rd) THEN "loop" ELSE "fatal"
    /\ UNCHANGED <<fs, opts, c, hosts, asked, built, launched, pos>>

\* Launch with a failed launch ending the run
LaunchAborts ==
    /\ pc = "loop"
    /\ pos <= Len(hosts)
    /\ LET cmds == getSSHCmdline(hosts[pos], c)
           run  == IF opts.UseTMUX THEN tmux(cmds) ELSE ssh(cmds)
       IN  /\ built' = Append(built, cmds)
           /\ \E end \in run.ends :
                 /\ launched' = Append(launched,
                        [host |-> hosts[pos], argv |-> run.argv,
                         mux |-> opts.UseTMUX, end |-> end])
                 /\ pc' = IF end \in {"started", "exited"} THEN "loop" ELSE "fatal"
    /\ pos' = pos + 1
    /\ UNCHANGED <<fs, opts, c, hosts, asked, answer>>

\* lines 225-232, one iteration: the command of hosts[pos] is built and
\* handed to tmux or to ssh; however that ends, the loop goes on
Launch ==
    /\ pc = "loop"
    /\ pos <= Len(hosts)
    /\ LET cmds == getSSHCmdline(hosts[pos], c)
           run  == IF opts.UseTMUX THEN tmux(cmds) ELSE ssh(cmds)
       IN  /\ built' = Append(built, cmds)
           /\ \E end \in run.ends :
                 launched' = Append(launched,
                     [host |-> hosts[pos], argv |-> run.argv,
                      mux |-> opts.UseTMUX, end |-> end])
    /\ pos' = pos + 1
    /\ UNCHANGED <<fs, opts, pc, c, hosts, asked, answer>>

\* line 233: the loop is over
Return ==
    /\ pc = "loop"
    /\ pos > Len(hosts)
    /\ pc' = "done"
    /\ UNCHANGED <<fs, opts, c, hosts, asked, answer, built, launched, pos>>

Next == LoadConfig \/ Resolve \/ Guard \/ Confirm \/ Launch \/ Return

Spec == Init /\ [][Next]_vars

(***************************************************************************)
(* Properties.                                                             *)
(***************************************************************************)
\* the candidate names main hands to getTargets
CandidateNames == IF DOMAIN c = {} THEN {} ELSE DOMAIN c \cup {<<>>}

\* the run got past the resolution of the targets
Resolved == pc \in {"resolved", "askyn", "loop", "done"}

\* C1: no resolved target begins with "_", whatever the filters and the
\* mode, the empty filter list included.
C1_NoUnderscoreTarget ==
    \A n \in 1..Len(hosts) : hosts[n] = <<>> \/ hosts[n][1] /= "_"

\* C2: the resolved targets are sorted ascending and no name occurs twice.
C2_SortedNoDuplicates ==
    \A a, b \in 1..Len(hosts) : a < b => StrLess(hosts[a], hosts[b])

\* the name k is declared by the document at path or by one it includes
RECURSIVE Provides(_, _, _)
Provides(files, path, k) ==
    LET d == files[expandHomeDir(path)]
    IN  \/ k \in DOMAIN d.Hosts
        \/ \E n \in 1..Len(d.Includes) : Provides(files, d.Includes[n], k)

\* the first record of k in declaration order: the document's own, else
\* that of its earliest include providing k
RECURSIVE FirstDeclared(_, _, _)
FirstDeclared(files, path, k) ==
    LET d == files[expandHomeDir(path)]
    IN  IF k \in DOMAIN d.Hosts THEN d.Hosts[k]
        ELSE LET n == CHOOSE m \in 1..Len(d.Includes) :
                         /\ Provides(files, d.Includes[m], k)
                         /\ \A l \in 1..(m - 1) : ~Provides(files, d.Includes[l], k)
             IN  FirstDeclared(files, d.Includes[n], k)

\* C3: a loaded configuration holds exactly the names its documents
\* declare, each with its first record in declaration order (own record,
\* else the earliest include's); a later source never overrides.
C3_FirstDeclarationWins ==
    pc = "loaded" =>
        /\ \A k \in {W1, W2, W3, Tpl} :
              k \in DOMAIN c <=> Provides(fs, opts.ConfigFile, k)
        /\ \A k \in DOMAIN c : c[k] = FirstDeclared(fs, opts.ConfigFile, k)

\* C3's case: the root declares w1, which both includes declare too, and
\* w2 comes from the first-listed include although the second has it too
C3_Witness ==
    /\ pc = "loaded"
    /\ FileB \in DOMAIN fs
    /\ fs[FileA].Includes = <<PathC, PathB>>
    /\ DOMAIN fs[FileA].Hosts = {W1}
    /\ DOMAIN fs[FileB].Hosts = {W1, W2}
    /\ DOMAIN fs[FileC].Hosts = {W1, W2}
    /\ c[W1] = RecIn("a")
    /\ c[W2] = RecIn("c")

\* C4: every resolved target is a key of the merged host mapping.
C4_TargetsAreHosts ==
    Resolved => \A n \in 1..Len(hosts) : hosts[n] \in DOMAIN c

\* strings.Fields: the maximal runs of non-whitespace characters of s
RECURSIVE Fields(_)
Fields(s) ==
    LET White(ch) == ch \in {" ", "\t"}
        black == {n \in 1..Len(s) : ~White(s[n])}
    IN  IF black = {} THEN <<>>
        ELSE LET from == CHOOSE n \in black : \A m \in black : n <= m
                 stop == {n \in from..Len(s) : White(s[n])}
                 to   == IF stop = {} THEN Len(s) + 1
                         ELSE CHOOSE n \in stop : \A m \in stop : n <= m
             IN  <<SubSeq(s, from, to - 1)>> \o Fields(Drop(s, to - 1))

\* the derivation of section 4.3
Derivation(name, h) ==
    LET addr == IF h.Hostname /= <<>> THEN h.Hostname ELSE name
        base == IF h.GatewayCommand /= <<>> THEN Fields(h.GatewayCommand)
                ELSE <<SSH, DashT>>
    IN  IF h.Via = <<>> THEN base \o <<addr>>
        ELSE <<SSH, DashT, h.Via, h.GatewayCommand \o <<" ">> \o addr>>

\* C5: every command built is the reference derivation: the gatewayCommand
\* split on whitespace into tokens (or ssh -t) followed by the address, or
\* ssh -t via "gatewayCommand address".
C5_BuildIsDerivation ==
    \A n \in 1..Len(built) :
        built[n] = Derivation(hosts[n],
                       IF hosts[n] \in DOMAIN c THEN c[hosts[n]] ELSE ZeroHost)

\* C6: with more than one target and no tmux nothing is built or launched,
\* so a run without tmux launches at most one subprocess.
C6_NoLaunchWithoutTmux ==
    /\ (~opts.UseTMUX /\ Len(hosts) > 1) => (built = <<>> /\ launched = <<>>)
    /\ ~opts.UseTMUX => Len(launched) <= 1

\* C6's case: the run stopped on the usage error
C6_Witness ==
    /\ pc = "fatal"
    /\ ~opts.Dryrun
    /\ ~opts.UseTMUX
    /\ Len(hosts) = 2
    /\ ~asked

\* the byte read is a yes
SaidYes == answer /= <<>> /\ ~answer[1].err /\ answer[1].b \in {"y", "Y"}

\* C7: with more than two targets and no auto-confirm, a command is built
\* only after the confirmation was asked and answered y or Y; any other
\* answer, a failed read included, ends the run with nothing built or
\* launched.
C7_ConfirmBeforeBuild ==
    (Len(hosts) > 2 /\ ~opts.Yes) =>
        /\ built /= <<>> => (asked /\ SaidYes)
        /\ launched /= <<>> => (asked /\ SaidYes)
        /\ (answer /= <<>> /\ ~SaidYes) =>
              (pc = "fatal" /\ built = <<>> /\ launched = <<>>)
        /\ pc \in {"loop", "done"} /\ ~opts.Dryrun => asked

\* C7's case: the confirmation was asked and declined
C7_Witness ==
    /\ pc = "fatal"
    /\ asked
    /\ answer /= <<>> /\ ~answer[1].err /\ answer[1].b = "n"
    /\ Len(hosts) = 3

\* C8: past the guards the targets are handed to the one launch strategy
\* of the run, one by one in their sorted order, each position once; a
\* launch that fails does not end the run, and at the end every target was
\* launched.
C8_EveryTargetLaunched ==
    /\ launched /= <<>> => pc \in {"loop", "done"}
    /\ Len(launched) <= Len(hosts)
    /\ \A n \in 1..Len(launched) :
          /\ launched[n].host = hosts[n]
          /\ launched[n].mux = opts.UseTMUX
    /\ (pc = "done" /\ ~opts.Dryrun) => Len(launched) = Len(hosts)

\* C8's case: the first launch failed to start and the other two followed
C8_Witness ==
    /\ pc = "done"
    /\ Len(hosts) = 3
    /\ Len(launched) = 3
    /\ launched[1].end = "start failed"
    /\ launched[2].end = "started"

\* C9: in literal mode the targets are exactly the candidates not
\* beginning with "_" that equal some pattern, and resolution never fails
\* on a pattern that is no valid regular expression.
C9_LiteralMode ==
    opts.FixedString =>
        /\ pc /= "regexp panic"
        /\ Resolved =>
              {hosts[n] : n \in 1..Len(hosts)} =
                  {k \in CandidateNames :
                      /\ (k = <<>> \/ k[1] /= "_")
                      /\ \E m \in 1..Len(opts.Filters) : opts.Filters[m] = k}

\* C10: loadConf returns, with a configuration or an error, also when the
\* includes form a cycle.
C10_LoadReturns == pc /= "overflow"

====
